---------------------------- MODULE Spec2Model ----------------------------
(***************************************************************************)
(* Model of misc/scripts/new_content.py: the content initializer that      *)
(* scaffolds a post or a note (an entry directory plus its index.md).      *)
(*                                                                         *)
(* Text is modelled as a sequence of tokens.  Characters a user can type   *)
(* (title characters, digits, "_", "-", "/") are one token each; literal   *)
(* text of the program that no input can produce ("content", "posts",      *)
(* "index.md", the fixed pieces of the frontmatter template, the fixed     *)
(* pieces of messages) is one token per piece.  "/" is always a token of   *)
(* its own, so that paths are resolved the way the operating system does.  *)
(*                                                                         *)
(* Optional values (an argparse attribute that may be None, a local that   *)
(* is not assigned yet) are sets with at most one element.                 *)
(***************************************************************************)
EXTENDS Integers, Sequences, FiniteSets, TLC

\* ------------------------------------------------------------------ bounds

\* Longest title typed on the command line or at the prompt.
MaxTitleLen == 1

\* Number of invocations of the tool in one behaviour of Spec.
MaxRuns == 2

\* ------------------------------------------------------------- option type

None == {}

Some(x) == {x}

Get(o) == CHOOSE x \in o : TRUE

\* ---------------------------------------------------------- input domains

\* Characters of the titles enumerated exhaustively.
Alphabet == {"A", " "}

RECURSIVE SeqsUpTo(_, _)
SeqsUpTo(S, n) ==
    IF n = 0 THEN {<<>>}
    ELSE LET shorter == SeqsUpTo(S, n - 1)
         IN  shorter \cup {Append(s, c) : s \in {t \in shorter : Len(t) = n - 1}, c \in S}

\* Titles added to the exhaustive ones: one to strip, the example of the
\* specification ("My Post"), and titles with a path separator (at the
\* end, in the middle, and before the name of the frontmatter file).
ExtraTitles == { <<" ", "A">>, <<"A", "/">>, <<"A", "/", "A">>,
                 <<"M", "y", " ", "P", "o", "s", "t">>,
                 <<"A", "/", "index.md">> }

\* Lines answered to the title prompt.
TypedTitles == SeqsUpTo(Alphabet, MaxTitleLen)

\* Values of --title.
Titles == TypedTitles \cup ExtraTitles

\* Values of --type and answers to the content-type prompt.
TypeInputs == {"post", "note", "invalid"}

\* Values of --year and --month.
YearInputs == {0, 1999}

MonthInputs == {0, 3}

\* The successive readings of the system clock (datetime.now()).
Dates == << [year |-> 2024, month |-> 3, day |-> 31],
            [year |-> 2024, month |-> 4, day |-> 1] >>

\* A parsed command line: each attribute is None when its flag is absent.
Argvs == [title : {None} \cup {Some(t) : t \in Titles},
          type  : {None} \cup {Some(t) : t \in TypeInputs},
          year  : {None} \cup {Some(y) : y \in YearInputs},
          month : {None} \cup {Some(m) : m \in MonthInputs}]

Procs == {1, 2}

\* ------------------------------------------------------- string operations

IsSpace(c) == c = " "

\* Variant of Strip: the title taken as typed, .strip() forgotten.
NoStrip(s) == s

\* str.strip(): drop leading and trailing whitespace.
Strip(s) ==
    LET keep == {i \in 1..Len(s) : ~IsSpace(s[i])}
    IN  IF keep = {} THEN <<>>
        ELSE LET lo == CHOOSE i \in keep : \A j \in keep : i <= j
                 hi == CHOOSE i \in keep : \A j \in keep : j <= i
             IN  SubSeq(s, lo, hi)

\* str.replace(old, new) for one-character old and new.
Replace(s, old, new) == [i \in 1..Len(s) |-> IF s[i] = old THEN new ELSE s[i]]

LowerChar(c) ==
    CASE c = "A" -> "a"
      [] c = "M" -> "m"
      [] c = "P" -> "p"
      [] OTHER   -> c

\* str.lower()
Lower(s) == [i \in 1..Len(s) |-> LowerChar(s[i])]

DigitChars == <<"0", "1", "2", "3", "4", "5", "6", "7", "8", "9">>

RECURSIVE Digits(_)
Digits(n) ==
    IF n < 10 THEN <<DigitChars[n + 1]>>
    ELSE Append(Digits(n \div 10), DigitChars[(n % 10) + 1])

\* Zeros that pad a text of length len to the given width.
Zeros(len, width) == [i \in 1..(IF width > len THEN width - len ELSE 0) |-> "0"]

\* format(n, "0<width>d"): sign first, then zeros, then the digits.
\* width 0 is str(n).
FormatInt(n, width) ==
    LET sign == IF n < 0 THEN <<"-">> ELSE <<>>
        digs == Digits(IF n < 0 THEN 0 - n ELSE n)
    IN  sign \o Zeros(Len(sign) + Len(digs), width) \o digs

\* datetime.strftime("%Y-%m-%d")
Strftime(d) ==
    FormatInt(d.year, 4) \o <<"-">> \o FormatInt(d.month, 2) \o <<"-">> \o FormatInt(d.day, 2)

\* The truth value Python's `or` gives an optional string / optional int.
TruthyStr(o) == o # None /\ Get(o) # <<>>

TruthyInt(o) == o # None /\ Get(o) # 0


\* ------------------------------------------------------------------- paths

RECURSIVE SplitPath(_, _, _)
SplitPath(path, i, cur) ==
    LET flush == IF cur = <<>> THEN <<>> ELSE <<cur>>
    IN  IF i > Len(path) THEN flush
        ELSE IF path[i] = "/" THEN flush \o SplitPath(path, i + 1, <<>>)
        ELSE SplitPath(path, i + 1, Append(cur, path[i]))

\* The components the operating system resolves a relative path to: the
\* text between separators, empty components (doubled or trailing "/")
\* dropped.  The working directory is the empty list.
Components(path) == SplitPath(path, 1, <<>>)

\* os.path.join(a, b)
PathJoin(a, b) ==
    IF b # <<>> /\ b[1] = "/" THEN b
    ELSE IF a = <<>> \/ a[Len(a)] = "/" THEN a \o b
    ELSE a \o <<"/">> \o b

Prefixes(comps) == {SubSeq(comps, 1, k) : k \in 1..Len(comps)}

Parent(comps) == SubSeq(comps, 1, Len(comps) - 1)

\* ---------------------------------------------------- the program's tables

\* content_types_to_dir = {"post": "posts", "note": "notes"}
content_types_to_dir == [t \in {"post", "note"} |-> IF t = "post" THEN "posts" ELSE "notes"]

\* content_types = list(content_types_to_dir.keys())
content_types == <<"post", "note">>

IsContentType(t) == \E i \in 1..Len(content_types) : content_types[i] = t

\* base_dir = f"content/{content_types_to_dir[content_type]}"
BaseDir(content_type) == <<"content", "/", content_types_to_dir[content_type]>>

\* dir_name = f"{year}_{month:02d}_{title.replace(' ', '_')}".lower()
DirName(title, year, month) ==
    Lower(FormatInt(year, 0) \o <<"_">> \o FormatInt(month, 2) \o <<"_">>
          \o Replace(title, " ", "_"))

\* Variant of Slug: the separator of the directory name used for the slug.
SlugUnderscore(title) == Lower(Replace(title, " ", "_"))

\* slug = title.replace(" ", "-").lower()
Slug(title) == Lower(Replace(title, " ", "-"))

\* The frontmatter template with its four interpolations.
Frontmatter(title, date, content_type, slug) ==
    <<"+++\n", "title = \"">> \o title \o <<"\"\n", "date = \"">> \o date
    \o <<"\"\n", "summary = \"", "\"\n", "tags = [", "]\n",
         "type = \"", content_type, "\"\n",
         "toc = false\n", "readTime = true\n", "autonumber = false\n",
         "showTags = true\n", "slug = \"">> \o slug \o <<"\"\n", "+++\n", "\n">>

RECURSIVE JoinQuoted(_)
JoinQuoted(l) ==
    IF l = <<>> THEN <<>>
    ELSE IF Len(l) = 1 THEN <<"'", l[1], "'">>
    ELSE <<"'", l[1], "'", ", ">> \o JoinQuoted(Tail(l))

\* sys.exit("Error: empty title")
EmptyTitleMessage == <<"Error: empty title">>

\* sys.exit(f"Error: invalid content type, should be one of: {content_types}")
InvalidTypeMessage ==
    <<"Error: invalid content type, should be one of: ", "[">>
    \o JoinQuoted(content_types) \o <<"]">>

\* sys.exit(f"Error: directory '{base_dir}' does not exist")
MissingDirMessage(base_dir) == <<"Error: directory '">> \o base_dir \o <<"' does not exist">>

\* parser.error of an argument whose value is not among its choices.
InvalidChoiceMessage(value) ==
    <<"argument --type: invalid choice: ", "'", value, "'", " (choose from ">>
    \o JoinQuoted(content_types) \o <<")">>

\* The message of an exception nobody catches.
Traceback(exception) == <<"Traceback", exception>>

\* ------------------------------------------------------------ file system

\* os.path.exists(path): the path resolves to a directory or to a file (a
\* path with a trailing separator only to a directory).
Exists(ds, fs, path) ==
    \/ Components(path) \in ds
    \/ /\ Components(path) \in DOMAIN fs
       /\ path[Len(path)] # "/"

\* Variant of MakeDirs: os.makedirs(path), exist_ok left at its default.
MakeDirsNoExistOk(ds, fs, path, exist_ok) ==
    LET comps == Components(path)
    IN  IF \E q \in Prefixes(comps) : q \in DOMAIN fs
        THEN [err |-> Some(IF comps \in DOMAIN fs THEN "FileExistsError"
                           ELSE "NotADirectoryError"),
              dirs |-> ds]
        ELSE IF comps \in ds
        THEN [err |-> Some("FileExistsError"), dirs |-> ds]
        ELSE [err |-> None, dirs |-> ds \cup Prefixes(comps)]

\* os.makedirs(path, exist_ok): creates the directory and every missing
\* ancestor.  A file in the way is an error, and so is an existing leaf
\* directory unless exist_ok.  The call is one step: whichever of two
\* concurrent calls makes a directory first, the other finds it made
\* (FileExistsError is swallowed for ancestors and, with exist_ok, for
\* the leaf), so the outcome does not depend on how their system calls
\* interleave.
MakeDirs(ds, fs, path, exist_ok) ==
    LET comps == Components(path)
    IN  IF \E q \in Prefixes(comps) : q \in DOMAIN fs
        THEN [err |-> Some(IF comps \in DOMAIN fs THEN "FileExistsError"
                           ELSE "NotADirectoryError"),
              dirs |-> ds]
        ELSE IF comps \in ds /\ ~exist_ok
        THEN [err |-> Some("FileExistsError"), dirs |-> ds]
        ELSE [err |-> None, dirs |-> ds \cup Prefixes(comps)]

\* The file table with the content of one path set.
WithFile(fs, comps, content) ==
    [q \in DOMAIN fs \cup {comps} |-> IF q = comps THEN content ELSE fs[q]]

\* Variant of OpenW: open(path, "a"), the content is kept and writes go
\* to its end.
OpenAppend(ds, fs, path) ==
    LET comps == Components(path)
    IN  IF comps \in ds
        THEN [err |-> Some("IsADirectoryError"), files |-> fs, pos |-> 0]
        ELSE IF comps = <<>> \/ Parent(comps) \notin ds
        THEN [err |-> Some("FileNotFoundError"), files |-> fs, pos |-> 0]
        ELSE IF comps \in DOMAIN fs
        THEN [err |-> None, files |-> fs, pos |-> Len(fs[comps])]
        ELSE [err |-> None, files |-> WithFile(fs, comps, <<>>), pos |-> 0]

\* Variant of OpenW: open(path, "r+"), the file must exist and is not
\* truncated.
OpenExisting(ds, fs, path) ==
    LET comps == Components(path)
    IN  IF comps \in ds
        THEN [err |-> Some("IsADirectoryError"), files |-> fs, pos |-> 0]
        ELSE IF comps \notin DOMAIN fs
        THEN [err |-> Some("FileNotFoundError"), files |-> fs, pos |-> 0]
        ELSE [err |-> None, files |-> fs, pos |-> 0]

\* open(path, "w"): creates the file or truncates it to nothing; the
\* position of the first write is 0.
OpenW(ds, fs, path) ==
    LET comps == Components(path)
    IN  IF comps \in ds
        THEN [err |-> Some("IsADirectoryError"), files |-> fs, pos |-> 0]
        ELSE IF comps = <<>> \/ Parent(comps) \notin ds
        THEN [err |-> Some("FileNotFoundError"), files |-> fs, pos |-> 0]
        ELSE [err |-> None, files |-> WithFile(fs, comps, <<>>), pos |-> 0]

\* The content of a file after data is written at position pos: what lies
\* outside the written range is kept.
WriteAt(content, pos, data) ==
    LET n == IF Len(content) > pos + Len(data) THEN Len(content) ELSE pos + Len(data)
    IN  [i \in 1..n |-> IF i > pos /\ i <= pos + Len(data) THEN data[i - pos]
                        ELSE IF i <= Len(content) THEN content[i]
                        ELSE "\\0"]

\* ------------------------------------------------------------------- state

VARIABLES
    dirs,         \* the directories of the file system (lists of components)
    files,        \* the regular files: path |-> content
    clock,        \* index in Dates of the current reading of the system clock
    runs,         \* invocations started so far
    proc,         \* per process: the position in the program and its locals
    snap,         \* per process: the file system when its invocation started
                  \* (for a process that is gone: the file system as it is)
    history,      \* inputs of the earlier invocations that ended successfully
    last_writer   \* the process whose data reached a file last

vars == <<dirs, files, clock, runs, proc, snap, history, last_writer>>

RootDirs == {<<>>, <<<<"content">>>>}

BaseDirs == {Components(BaseDir(content_types[i])) : i \in 1..Len(content_types)}

\* A process about to run main() on a command line.
FreshProc(argv) ==
    [pc |-> "start", argv |-> argv,
     raw_title |-> None, title |-> None, content_type |-> None,
     year |-> None, month |-> None,
     base_dir |-> None, dir_name |-> None, dir_path |-> None,
     index_file_path |-> None, date |-> None, slug |-> None,
     frontmatter |-> None, f |-> None,
     exit_code |-> None, message |-> <<>>, out |-> None]

NoArgv == [title |-> None, type |-> None, year |-> None, month |-> None]

\* A process that never runs.
OffProc == [FreshProc(NoArgv) EXCEPT !.pc = "off"]

\* The process ends: sys.exit(message), an argparse error, or a traceback.
Exited(r, code, message) ==
    [r EXCEPT !.pc = "done", !.exit_code = Some(code), !.message = message]

\* The inputs init_content() is called with.
Inputs(r) == <<r.title, r.content_type, r.year, r.month>>

\* ----------------------------------------------------------------- actions

\* main(), line 68: parser.parse_args().  --type is declared with
\* choices=content_types, so any other value ends the run with status 2.
ParseArgs(p) ==
    /\ proc[p].pc = "start"
    /\ LET r == proc[p]
       IN  proc' = [proc EXCEPT ![p] =
               IF r.argv.type # None /\ ~IsContentType(Get(r.argv.type))
               THEN Exited(r, 2, InvalidChoiceMessage(Get(r.argv.type)))
               ELSE [r EXCEPT !.pc = "get_title"]]
    /\ UNCHANGED <<dirs, files, clock, runs, snap, history, last_writer>>

\* What input() can return for a prompt: a line, or None at end of input.
PromptAnswers(lines) == {None} \cup {Some(l) : l \in lines}

\* Variant of GetTitle: the test for an empty title left out.
GetTitleNoCheck(p) ==
    /\ proc[p].pc = "get_title"
    /\ LET r == proc[p]
       IN  \E typed \in (IF TruthyStr(r.argv.title) THEN {r.argv.title}
                         ELSE PromptAnswers(TypedTitles)) :
               proc' = [proc EXCEPT ![p] =
                   IF typed = None THEN Exited(r, 1, Traceback("EOFError"))
                   ELSE [r EXCEPT !.pc = "get_type", !.raw_title = typed,
                                  !.title = Some(Strip(Get(typed)))]]
    /\ UNCHANGED <<dirs, files, clock, runs, snap, history, last_writer>>

\* main(), lines 70-73: the title from --title or, when that is None or
\* empty, from the prompt; stripped; empty is fatal.
GetTitle(p) ==
    /\ proc[p].pc = "get_title"
    /\ LET r == proc[p]
       IN  \E typed \in (IF TruthyStr(r.argv.title) THEN {r.argv.title}
                         ELSE PromptAnswers(TypedTitles)) :
               proc' = [proc EXCEPT ![p] =
                   IF typed = None THEN Exited(r, 1, Traceback("EOFError"))
                   ELSE LET title == Strip(Get(typed))
                            got   == [r EXCEPT !.raw_title = typed, !.title = Some(title)]
                        IN  IF title = <<>> THEN Exited(got, 1, EmptyTitleMessage)
                            ELSE [got EXCEPT !.pc = "get_type"]]
    /\ UNCHANGED <<dirs, files, clock, runs, snap, history, last_writer>>

\* Variant of GetType: the membership test left out, so that an unknown
\* type fails in the lookup of its directory (KeyError).
GetTypeNoCheck(p) ==
    /\ proc[p].pc = "get_type"
    /\ LET r == proc[p]
       IN  \E typed \in (IF r.argv.type # None THEN {r.argv.type}
                         ELSE PromptAnswers(TypeInputs)) :
               proc' = [proc EXCEPT ![p] =
                   IF typed = None THEN Exited(r, 1, Traceback("EOFError"))
                   ELSE IF ~IsContentType(Get(typed))
                        THEN Exited([r EXCEPT !.content_type = typed], 1,
                                    Traceback("KeyError"))
                        ELSE [r EXCEPT !.content_type = typed, !.pc = "get_date"]]
    /\ UNCHANGED <<dirs, files, clock, runs, snap, history, last_writer>>

\* main(), lines 75-80: the content type from --type or from the prompt;
\* a value outside content_types is fatal.
GetType(p) ==
    /\ proc[p].pc = "get_type"
    /\ LET r == proc[p]
       IN  \E typed \in (IF r.argv.type # None THEN {r.argv.type}
                         ELSE PromptAnswers(TypeInputs)) :
               proc' = [proc EXCEPT ![p] =
                   IF typed = None THEN Exited(r, 1, Traceback("EOFError"))
                   ELSE LET got == [r EXCEPT !.content_type = typed]
                        IN  IF ~IsContentType(Get(typed))
                            THEN Exited(got, 1, InvalidTypeMessage)
                            ELSE [got EXCEPT !.pc = "get_date"]]
    /\ UNCHANGED <<dirs, files, clock, runs, snap, history, last_writer>>

\* main(), lines 82-87: year and month from the flags, or from the clock
\* when the flag is absent or zero (`or`); then init_content() is called.
GetDate(p) ==
    /\ proc[p].pc = "get_date"
    /\ LET r   == proc[p]
           now == Dates[clock]
       IN  proc' = [proc EXCEPT ![p] =
               [r EXCEPT !.pc = "check_base",
                         !.year  = IF TruthyInt(r.argv.year) THEN r.argv.year
                                   ELSE Some(now.year),
                         !.month = IF TruthyInt(r.argv.month) THEN r.argv.month
                                   ELSE Some(now.month)]]
    /\ UNCHANGED <<dirs, files, clock, runs, snap, history, last_writer>>

\* Variant of CheckBase: the existence test left out.
CheckBaseNoExit(p) ==
    /\ proc[p].pc = "check_base"
    /\ LET r        == proc[p]
           base_dir == BaseDir(Get(r.content_type))
       IN  proc' = [proc EXCEPT ![p] =
               [r EXCEPT !.base_dir = Some(base_dir), !.pc = "makedirs"]]
    /\ UNCHANGED <<dirs, files, clock, runs, snap, history, last_writer>>

\* init_content(), lines 8-14: the base directory must exist.
CheckBase(p) ==
    /\ proc[p].pc = "check_base"
    /\ LET r        == proc[p]
           base_dir == BaseDir(Get(r.content_type))
           got      == [r EXCEPT !.base_dir = Some(base_dir)]
       IN  proc' = [proc EXCEPT ![p] =
               IF ~Exists(dirs, files, base_dir)
               THEN Exited(got, 1, MissingDirMessage(base_dir))
               ELSE [got EXCEPT !.pc = "makedirs"]]
    /\ UNCHANGED <<dirs, files, clock, runs, snap, history, last_writer>>

\* init_content(), lines 16-19: the entry directory, created if absent.
CreateContentDir(p) ==
    /\ proc[p].pc = "makedirs"
    /\ LET r        == proc[p]
           dir_name == DirName(Get(r.title), Get(r.year), Get(r.month))
           dir_path == PathJoin(Get(r.base_dir), dir_name)
           made     == MakeDirs(dirs, files, dir_path, TRUE)
           got      == [r EXCEPT !.dir_name = Some(dir_name), !.dir_path = Some(dir_path)]
       IN  /\ dirs' = made.dirs
           /\ proc' = [proc EXCEPT ![p] =
                  IF made.err # None THEN Exited(got, 1, Traceback(Get(made.err)))
                  ELSE [got EXCEPT !.pc = "populate"]]
    /\ UNCHANGED <<files, clock, runs, snap, history, last_writer>>

\* init_content(), lines 21-40: the path of index.md, today's date, the
\* slug and the frontmatter text.
Populate(p) ==
    /\ proc[p].pc = "populate"
    /\ LET r     == proc[p]
           title == Get(r.title)
           date  == Strftime(Dates[clock])
           slug  == Slug(title)
       IN  proc' = [proc EXCEPT ![p] =
               [r EXCEPT !.pc = "open",
                         !.index_file_path = Some(PathJoin(Get(r.dir_path), <<"index.md">>)),
                         !.date = Some(date), !.slug = Some(slug),
                         !.frontmatter =
                             Some(Frontmatter(title, date, Get(r.content_type), slug))]]
    /\ UNCHANGED <<dirs, files, clock, runs, snap, history, last_writer>>

\* init_content(), line 43: open(index_file_path, "w").
OpenFile(p) ==
    /\ proc[p].pc = "open"
    /\ LET r      == proc[p]
           opened == OpenW(dirs, files, Get(r.index_file_path))
       IN  /\ files' = opened.files
           /\ proc' = [proc EXCEPT ![p] =
                  IF opened.err # None THEN Exited(r, 1, Traceback(Get(opened.err)))
                  ELSE [r EXCEPT !.pc = "write",
                                 !.f = Some([path   |-> Components(Get(r.index_file_path)),
                                             pos    |-> opened.pos,
                                             buffer |-> <<>>])]]
    /\ UNCHANGED <<dirs, clock, runs, snap, history, last_writer>>

\* init_content(), line 44: f.write(frontmatter) fills the buffer of the
\* file object; nothing reaches the file yet.
WriteFile(p) ==
    /\ proc[p].pc = "write"
    /\ LET r == proc[p]
       IN  proc' = [proc EXCEPT ![p] =
               [r EXCEPT !.pc = "close",
                         !.f = Some([Get(r.f) EXCEPT !.buffer = @ \o Get(r.frontmatter)])]]
    /\ UNCHANGED <<dirs, files, clock, runs, snap, history, last_writer>>

\* init_content(), lines 43-44: leaving the with block closes the file,
\* which writes the buffer at the position of the file object.
CloseFile(p) ==
    /\ proc[p].pc = "close"
    /\ LET r == proc[p]
           f == Get(r.f)
       IN  /\ files' = WithFile(files, f.path, WriteAt(files[f.path], f.pos, f.buffer))
           /\ proc' = [proc EXCEPT ![p] = [r EXCEPT !.pc = "report", !.f = None]]
    /\ last_writer' = Some(p)
    /\ UNCHANGED <<dirs, clock, runs, snap, history>>

\* init_content(), lines 46-50, and the return of main(): the report on
\* standard output and exit status 0.
Report(p) ==
    /\ proc[p].pc = "report"
    /\ LET r == proc[p]
       IN  proc' = [proc EXCEPT ![p] =
               [r EXCEPT !.pc = "done", !.exit_code = Some(0),
                         !.out = Some([content_type |-> Get(r.content_type),
                                       title |-> Get(r.title),
                                       dir   |-> Get(r.dir_name),
                                       slug  |-> Get(r.slug),
                                       path  |-> Get(r.index_file_path)])]]
    /\ UNCHANGED <<dirs, files, clock, runs, snap, history, last_writer>>

\* The process is gone: nothing of it remains but what it left in the
\* file system.
Terminate(p) ==
    /\ proc[p].pc = "done"
    /\ proc' = [proc EXCEPT ![p] = OffProc]
    /\ snap' = [snap EXCEPT ![p] = [dirs |-> dirs, files |-> files]]
    /\ history' = IF proc[p].exit_code = Some(0) THEN history \cup {Inputs(proc[p])}
                  ELSE history
    /\ UNCHANGED <<dirs, files, clock, runs, last_writer>>

\* The user runs the tool again, on any command line.
NewInvocation(p) ==
    /\ proc[p].pc = "off"
    /\ runs < MaxRuns
    /\ runs' = runs + 1
    /\ \E argv \in Argvs : proc' = [proc EXCEPT ![p] = FreshProc(argv)]
    /\ snap' = [snap EXCEPT ![p] = [dirs |-> dirs, files |-> files]]
    /\ UNCHANGED <<dirs, files, clock, history, last_writer>>

\* Time passes: the next reading of the clock.  The clock is read in
\* main() (line 83) and in init_content() (line 25); time that passes
\* anywhere else is time that passed before the next reading.
Tick ==
    /\ clock < Len(Dates)
    /\ \E p \in Procs : proc[p].pc \in {"get_date", "populate"}
    /\ clock' = clock + 1
    /\ UNCHANGED <<dirs, files, runs, proc, snap, history, last_writer>>

\* One step of the program in process p.
Step(p) ==
    \/ ParseArgs(p)
    \/ GetTitle(p)
    \/ GetType(p)
    \/ GetDate(p)
    \/ CheckBase(p)
    \/ CreateContentDir(p)
    \/ Populate(p)
    \/ OpenFile(p)
    \/ WriteFile(p)
    \/ CloseFile(p)
    \/ Report(p)

\* ---------------------------------------------------------- specifications

\* The file system before the tool ever ran: content/ with any of the base
\* directories, and no entry.
InitFs ==
    /\ \E B \in SUBSET BaseDirs : dirs = RootDirs \cup B
    /\ files = <<>>
    /\ clock = 1
    /\ history = {}
    /\ last_writer = None

\* Spec: invocations one after the other (process 1).
Init ==
    /\ InitFs
    /\ runs = 1
    /\ \E argv \in Argvs : proc = [p \in Procs |-> IF p = 1 THEN FreshProc(argv) ELSE OffProc]
    /\ snap = [p \in Procs |-> [dirs |-> dirs, files |-> files]]

Next ==
    \/ Step(1)
    \/ Terminate(1)
    \/ NewInvocation(1)
    \/ Tick

Spec == Init /\ [][Next]_vars

\* SpecConc: two invocations on the same command line at the same time,
\* title and type given as flags (nothing is asked at a shared terminal).
InitConc ==
    /\ InitFs
    /\ runs = 2
    /\ \E argv \in {a \in Argvs : TruthyStr(a.title) /\ a.type # None} :
           proc = [p \in Procs |-> FreshProc(argv)]
    /\ snap = [p \in Procs |-> [dirs |-> dirs, files |-> files]]

NextConc ==
    \/ \E p \in Procs : Step(p)
    \/ Tick

SpecConc == InitConc /\ [][NextConc]_vars

\* ------------------------------------------------- vocabulary of the claims

Done(p) == proc[p].pc = "done"

Succeeded(p) == Done(p) /\ proc[p].exit_code = Some(0)

Failed(p) == Done(p) /\ proc[p].exit_code # None /\ Get(proc[p].exit_code) # 0

\* The file system is as it was when the invocation of p started.
FsUnchanged(p) == dirs = snap[p].dirs /\ files = snap[p].files

\* The paths (directories and files) created or rewritten since the
\* invocation of p started.
Changed(p) ==
    (dirs \ snap[p].dirs)
    \cup {q \in DOMAIN files : q \notin DOMAIN snap[p].files \/ files[q] # snap[p].files[q]}

AllSpaces(s) == \A i \in 1..Len(s) : s[i] = " "

\* s without its leading and trailing spaces, said without saying how to
\* compute it: the middle of s, spaces only around it, none at its ends.
Trimmed(s) ==
    CHOOSE t \in {SubSeq(s, i, j) : i \in 1..(Len(s) + 1), j \in 0..Len(s)} :
        /\ \E i \in 1..(Len(s) + 1), j \in 0..Len(s) :
               /\ t = SubSeq(s, i, j)
               /\ \A k \in 1..Len(s) : (k < i \/ k > j) => s[k] = " "
        /\ t = <<>> \/ (t[1] # " " /\ t[Len(t)] # " ")

Lowercase(c) ==
    CASE c = "A" -> "a" [] c = "M" -> "m" [] c = "P" -> "p" [] OTHER -> c

\* lowercase(title with spaces -> hyphens)
ExpectedSlug(title) ==
    [i \in 1..Len(title) |-> IF title[i] = " " THEN "-" ELSE Lowercase(title[i])]

TwoDigits(m) == IF m >= 0 /\ m < 10 THEN <<"0", DigitChars[m + 1]>> ELSE FormatInt(m, 0)

\* lowercase(year + "_" + two-digit month + "_" + title with spaces -> underscores)
ExpectedDirName(title, year, month) ==
    FormatInt(year, 0) \o <<"_">> \o TwoDigits(month) \o <<"_">>
    \o [i \in 1..Len(title) |-> IF title[i] = " " THEN "_" ELSE Lowercase(title[i])]

\* content/posts for a post, content/notes for a note.
ExpectedTypeDir(content_type) == IF content_type = "post" THEN "posts" ELSE "notes"

ExpectedBase(content_type) == << <<"content">>, <<ExpectedTypeDir(content_type)>> >>

\* The value of a field of a frontmatter text: what stands between the
\* field's opening and the next closing token; None when there is none.
FieldOf(text, open, close) ==
    LET starts == {i \in 1..Len(text) : text[i] = open}
    IN  IF starts = {} THEN None
        ELSE LET i    == CHOOSE k \in starts : \A l \in starts : k <= l
                 ends == {j \in (i + 1)..Len(text) : text[j] = close}
             IN  IF ends = {} THEN None
                 ELSE LET j == CHOOSE k \in ends : \A l \in ends : k <= l
                      IN  Some(SubSeq(text, i + 1, j - 1))

TitleField(text) == FieldOf(text, "title = \"", "\"\n")

DateField(text) == FieldOf(text, "date = \"", "\"\n")

SummaryField(text) == FieldOf(text, "summary = \"", "\"\n")

TagsField(text) == FieldOf(text, "tags = [", "]\n")

TypeField(text) == FieldOf(text, "type = \"", "\"\n")

SlugField(text) == FieldOf(text, "slug = \"", "\"\n")

\* msg contains part as a run of consecutive tokens.
Mentions(msg, part) ==
    \E i \in 0..(Len(msg) - Len(part)) : SubSeq(msg, i + 1, i + Len(part)) = part

\* The title the user gave: the one the program read, or the --title flag
\* when the run ended before reading it.
TitleGiven(p) ==
    IF proc[p].raw_title # None THEN proc[p].raw_title
    ELSE IF TruthyStr(proc[p].argv.title) THEN proc[p].argv.title ELSE None

\* The content type the user gave: the --type flag, or the answer to the
\* prompt once it was asked.
TypeGiven(p) ==
    IF proc[p].argv.type # None THEN proc[p].argv.type ELSE proc[p].content_type

\* The path of the index.md of p's entry.
IndexOf(p) == Components(Get(proc[p].index_file_path))

\* ------------------------------------------------------------------ claims

\* C1: a successful run given --year and --month creates, under
\* content/posts (post) or content/notes (note), the directory named
\* lowercase(year_MM_title), spaces of the trimmed title replaced by
\* underscores, with the year and the month that were supplied, and
\* reports that name.
C1_DirNameFromSuppliedYearMonth ==
    LET r == proc[1]
    IN  (Succeeded(1) /\ r.argv.year # None /\ r.argv.month # None) =>
            LET name == ExpectedDirName(Trimmed(Get(r.raw_title)),
                                        Get(r.argv.year), Get(r.argv.month))
                entry == Append(ExpectedBase(Get(r.content_type)), name)
            IN  /\ r.out # None /\ Get(r.out).dir = name
                /\ entry \in dirs
                /\ Append(entry, <<"index.md">>) \in DOMAIN files

\* C2: after a successful run the slug in the frontmatter and the slug
\* reported equal the lowercased trimmed title with hyphens for spaces.
C2_SlugIsLoweredHyphenatedTitle ==
    LET r == proc[1]
    IN  Succeeded(1) =>
            LET slug == ExpectedSlug(Trimmed(Get(r.raw_title)))
            IN  /\ r.out # None /\ Get(r.out).slug = slug
                /\ IndexOf(1) \in DOMAIN files
                /\ SlugField(files[IndexOf(1)]) = Some(slug)

C2_Witness ==
    /\ Succeeded(1)
    /\ proc[1].raw_title = Some(<<"M", "y", " ", "P", "o", "s", "t">>)
    /\ Get(proc[1].out).slug = <<"m", "y", "-", "p", "o", "s", "t">>
    /\ SlugField(files[IndexOf(1)]) = Some(<<"m", "y", "-", "p", "o", "s", "t">>)

\* C3: a run whose title is empty after trimming changes nothing in the
\* file system, never gets past the title, and ends with a non-zero status.
C3_EmptyTitleIsFatal ==
    (TitleGiven(1) # None /\ AllSpaces(Get(TitleGiven(1)))) =>
        /\ FsUnchanged(1)
        /\ proc[1].pc \in {"start", "get_title", "done"}
        /\ Done(1) => Failed(1)

C3_Witness ==
    /\ Failed(1)
    /\ proc[1].argv.title = None
    /\ proc[1].raw_title = Some(<<" ">>)
    /\ proc[1].message = EmptyTitleMessage
    /\ runs = 2
    /\ files # <<>>

\* C4: a run whose content type is not post or note changes nothing in
\* the file system and ends with a non-zero status and a message that
\* lists the valid types.
C4_InvalidTypeIsFatal ==
    (TypeGiven(1) # None /\ Get(TypeGiven(1)) \notin {"post", "note"}) =>
        /\ FsUnchanged(1)
        /\ Done(1) => /\ Failed(1)
                      /\ Mentions(proc[1].message, <<"post">>)
                      /\ Mentions(proc[1].message, <<"note">>)

C4_Witness ==
    /\ Failed(1)
    /\ proc[1].argv.type = None
    /\ proc[1].content_type = Some("invalid")
    /\ proc[1].message = InvalidTypeMessage
    /\ runs = 2
    /\ files # <<>>

C6_RerunOverwrites ==
    (Done(1) /\ Inputs(proc[1]) \in history) =>
        /\ Succeeded(1)
        /\ IndexOf(1) \in DOMAIN files
        /\ files[IndexOf(1)] = Get(proc[1].frontmatter)

\* The second run found the first run's file and left another text in it.
C6_Witness ==
    /\ Succeeded(1)
    /\ Inputs(proc[1]) \in history
    /\ IndexOf(1) \in DOMAIN snap[1].files
    /\ snap[1].files[IndexOf(1)] # <<>>
    /\ snap[1].files[IndexOf(1)] # files[IndexOf(1)]
    /\ files[IndexOf(1)] = Get(proc[1].frontmatter)

\* A frontmatter text with title, date, type and slug filled in, type
\* being post or note, and summary and tags empty.
WellFormed(text) ==
    /\ TitleField(text) # None /\ Get(TitleField(text)) # <<>>
    /\ DateField(text) # None /\ Get(DateField(text)) # <<>>
    /\ TypeField(text) \in {Some(<<"post">>), Some(<<"note">>)}
    /\ SlugField(text) # None /\ Get(SlugField(text)) # <<>>
    /\ SummaryField(text) = Some(<<>>)
    /\ TagsField(text) = Some(<<>>)

\* A file some process has open: its text is not written yet.
BeingWritten(q) == \E p \in Procs : proc[p].f # None /\ Get(proc[p].f).path = q

\* C7: every index.md the tool has written holds well-formed frontmatter,
\* and the one a successful run wrote carries its trimmed, non-empty
\* title and its content type.
C7_FrontmatterWellFormed ==
    /\ \A q \in DOMAIN files : BeingWritten(q) \/ WellFormed(files[q])
    /\ Succeeded(1) =>
           /\ IndexOf(1) \in DOMAIN files
           /\ Trimmed(Get(proc[1].raw_title)) # <<>>
           /\ TitleField(files[IndexOf(1)]) = Some(Trimmed(Get(proc[1].raw_title)))
           /\ TypeField(files[IndexOf(1)]) = Some(<<Get(TypeGiven(1))>>)

C7_Witness ==
    /\ Succeeded(1)
    /\ proc[1].raw_title = Some(<<" ", "A">>)
    /\ TitleField(files[IndexOf(1)]) = Some(<<"A">>)
    /\ TypeField(files[IndexOf(1)]) = Some(<<"note">>)
    /\ Cardinality(DOMAIN files) = 2

\* The entries that existed when the invocation of p started: the
\* directories directly under a base directory.
EntriesBefore(p) ==
    {e \in snap[p].dirs : Len(e) = 3 /\ SubSeq(e, 1, 2) \in {ExpectedBase("post"), ExpectedBase("note")}}

\* C8: a run changes nothing but its entry directory
\* content/<type-dir>/<dir name> and the index.md in it, and it changes
\* an entry that existed only if its directory name is the computed one.
C8_OtherEntriesUntouched ==
    LET r == proc[1]
    IN  (Done(1) /\ Changed(1) # {}) =>
            /\ r.dir_name # None /\ r.index_file_path # None
            /\ \A q \in Changed(1) : q \in Prefixes(IndexOf(1)) /\ Len(q) >= 3
            /\ \A e \in EntriesBefore(1) :
                   (\E q \in Changed(1) : e \in Prefixes(q)) => e[3] = Get(r.dir_name)

\* The base directory of p's content type existed at the start, and its
\* title and type are valid.
Validated(p) ==
    /\ TitleGiven(p) # None /\ ~AllSpaces(Get(TitleGiven(p)))
    /\ TypeGiven(p) # None /\ Get(TypeGiven(p)) \in {"post", "note"}
    /\ ExpectedBase(Get(TypeGiven(p))) \in snap[p].dirs

\* C9: the content type is asked only of a run with a valid title, the
\* base directory is looked for only with a valid type, and the file
\* system changes only after all three checks; a run ends either failed
\* with the file system as it found it, or successful with its report
\* made, its entry directory present and index.md holding the whole
\* frontmatter.
C9_NoPartialState ==
    LET r == proc[1]
    IN  /\ r.content_type # None => ~AllSpaces(Get(TitleGiven(1)))
        /\ r.base_dir # None => Get(r.content_type) \in {"post", "note"}
        /\ ~FsUnchanged(1) => Validated(1) /\ r.base_dir # None
        /\ Done(1) =>
               \/ Failed(1) /\ FsUnchanged(1)
               \/ /\ Succeeded(1)
                  /\ r.out # None
                  /\ Components(Get(r.dir_path)) \in dirs
                  /\ IndexOf(1) \in DOMAIN files
                  /\ files[IndexOf(1)] = Get(r.frontmatter)

\* A run that passed every check and still failed, on opening index.md,
\* after an entry directory it did not have to create.
C9_Witness ==
    /\ Failed(1)
    /\ Validated(1)
    /\ proc[1].message = Traceback("IsADirectoryError")
    /\ FsUnchanged(1)

\* C10: when two concurrent runs with the same title, type, year and
\* month, whose base directory exists, have both ended, both succeeded
\* and index.md holds exactly the frontmatter of the one that wrote last.
C10_LastWriterWins ==
    (/\ Done(1) /\ Done(2)
     /\ Inputs(proc[1]) = Inputs(proc[2])
     /\ Validated(1) /\ Validated(2)) =>
        /\ Succeeded(1) /\ Succeeded(2)
        /\ last_writer # None
        /\ IndexOf(1) = IndexOf(2)
        /\ files[IndexOf(1)] = Get(proc[Get(last_writer)].frontmatter)

\* Both ended, and the one that wrote last is not the one whose text
\* the other would have left.
C10_Witness ==
    /\ Succeeded(1) /\ Succeeded(2)
    /\ Inputs(proc[1]) = Inputs(proc[2])
    /\ proc[1].frontmatter # proc[2].frontmatter
    /\ last_writer = Some(1)
    /\ files[IndexOf(1)] = Get(proc[1].frontmatter)

=============================================================================
